---- MODULE Spec2Model ----
(***************************************************************************)
(* A model of the Empathy Engine (src/empathy_engine.py, src/config.py,    *)
(* src/main.py): emotion detection by fusion of three sources, the mapping *)
(* of (emotion, intensity) to vocal parameters, and the audio pipeline of  *)
(* synthesize_with_emotion / _generate_audio.                              *)
(*                                                                         *)
(* Numbers.  Python floats are held as exact decimals in fixed point:      *)
(*   intensity                      in tenths        (10  = 1.0)           *)
(*   profile values, multipliers    in hundredths    (105 = 1.05)          *)
(*   vocal parameters               in 1/10000       (10500 = 1.05)        *)
(*   lexicon/polarity/classifier scores in twentieths (1 = 0.05)           *)
(*   fusion weights and confidences in 1/200         (200 = 1.0)           *)
(* The binary rounding of a decimal is modelled where a comparison of the  *)
(* code is decided by it (the 0.05 thresholds of _generate_audio), see     *)
(* FlErr.                                                                  *)
(***************************************************************************)
EXTENDS Integers, Sequences, FiniteSets, TLC

VARIABLES
    use_hf,             \* config.USE_HUGGING_FACE
    emotion_classifier, \* self.emotion_classifier: "pipeline" or "None"
    tts_rate,           \* tts_engine property 'rate' (words per minute)
    tts_volume,         \* tts_engine property 'volume' (1/10000)
    files,              \* temp_audio: file name -> what the file holds
    op,                 \* the operation invoked on the engine
    pc,                 \* its position
    gvp,                \* the last get_vocal_parameters call: <<>> or <<record>>
    det,                \* the last detect_emotion call: <<>> or <<record>>
    req,                \* the arguments of the running operation: <<>> or <<record>>
    loc,                \* its local variables (emotion, confidence, vocal_params)
    audio,              \* the waveform held by _generate_audio: <<>> or <<record>>
    trace,              \* the stages the running operation has performed
    ret,                \* what it returned: <<>>, <<"raised">> or <<"ok", record>>
    now,                \* time.time() and datetime.now(), in whole seconds
    resp,               \* the HTTP response of POST /synthesize: <<>> or <<record>>
    hist,               \* the requests answered so far, oldest first
    thr                 \* threads inside _generate_audio on the one engine

vars == <<use_hf, emotion_classifier, tts_rate, tts_volume, files, op, pc,
          gvp, det, req, loc, audio, trace, ret, now, resp, hist, thr>>

(***************************************************************************)
(* Bounds of the model.                                                    *)
(***************************************************************************)
\* intensities are drawn from -MaxOver/10 .. 2.0 + MaxOver/10, and +-FarOut
MaxOver == 5
\* lexicon and polarity scores are drawn from [-1, 1] in ScoreSteps steps a
\* side, and from the NearZero twentieths on each side of 0 (the thresholds)
ScoreSteps == 4
NearZero == 2
\* classifier scores are drawn from [0, 1] in HfSteps steps
HfSteps == 2

Hundred == 10 * 10
Scale == Hundred * Hundred

Abs(x) == IF x < 0 THEN -x ELSE x
Min2(a, b) == IF b < a THEN b ELSE a   \* Python min(a, b)
Max2(a, b) == IF b > a THEN b ELSE a   \* Python max(a, b)

\* Optional[str]: <<>> is None, <<s>> is the string s
None == <<>>
Some(s) == <<s>>
\* Python truthiness of an Optional[str]: None and "" are falsy
Truthy(o) == o # <<>> /\ o[1] # ""

(***************************************************************************)
(* config.py                                                               *)
(***************************************************************************)
DEFAULT_RATE == 180
DEFAULT_VOLUME == 8000

RATE_RANGE == <<5000, 20000>>
PITCH_RANGE == <<5000, 20000>>
VOLUME_RANGE == <<1000, 10000>>

EMOTION_MAPPINGS ==
    [joy      |-> [rate |-> 105, pitch |-> 103, volume |-> 85,
                   description |-> "Happy, cheerful, natural enthusiasm"],
     sadness  |-> [rate |-> 90,  pitch |-> 95,  volume |-> 75,
                   description |-> "Somber, melancholic, natural sadness"],
     anger    |-> [rate |-> 102, pitch |-> 101, volume |-> 90,
                   description |-> "Intense, controlled anger"],
     fear     |-> [rate |-> 108, pitch |-> 105, volume |-> 80,
                   description |-> "Anxious, nervous, natural fear"],
     surprise |-> [rate |-> 106, pitch |-> 108, volume |-> 85,
                   description |-> "Excited, astonished, natural surprise"],
     disgust  |-> [rate |-> 95,  pitch |-> 97,  volume |-> 80,
                   description |-> "Contemptuous, dismissive, natural disgust"],
     neutral  |-> [rate |-> 100, pitch |-> 100, volume |-> 80,
                   description |-> "Calm, professional, natural"]]

EmotionLabels == DOMAIN EMOTION_MAPPINGS

\* faulty variant: the fallback is another profile
get_emotion_mapping_joy(emotion) ==
    IF emotion \in DOMAIN EMOTION_MAPPINGS
    THEN EMOTION_MAPPINGS[emotion] ELSE EMOTION_MAPPINGS["joy"]

\* EMOTION_MAPPINGS.get(emotion, EMOTION_MAPPINGS["neutral"])
get_emotion_mapping(emotion) ==
    IF emotion \in DOMAIN EMOTION_MAPPINGS
    THEN EMOTION_MAPPINGS[emotion] ELSE EMOTION_MAPPINGS["neutral"]

\* max(0.1, min(2.0, intensity)), in tenths
validate_intensity(intensity) == Max2(1, Min2(20, intensity))

\* faulty variant: the volume range is not applied
validate_vocal_parameter_novolume(param_name, value) ==
    IF param_name = "rate"
    THEN Max2(RATE_RANGE[1], Min2(RATE_RANGE[2], value))
    ELSE IF param_name = "pitch"
    THEN Max2(PITCH_RANGE[1], Min2(PITCH_RANGE[2], value))
    ELSE value

validate_vocal_parameter(param_name, value) ==
    IF param_name = "rate"
    THEN Max2(RATE_RANGE[1], Min2(RATE_RANGE[2], value))
    ELSE IF param_name = "pitch"
    THEN Max2(PITCH_RANGE[1], Min2(PITCH_RANGE[2], value))
    ELSE IF param_name = "volume"
    THEN Max2(VOLUME_RANGE[1], Min2(VOLUME_RANGE[2], value))
    ELSE value

(***************************************************************************)
(* EmpathyEngine.get_vocal_parameters                                      *)
(***************************************************************************)
\* faulty variant: the rate multiplier falls with the intensity
rate_multiplier_falling(intensity) == 130 - 3 * intensity

\* 0.7 + 0.3 * intensity, in hundredths for an intensity in tenths
rate_multiplier(intensity) == 70 + 3 * intensity
\* 0.85 + 0.3 * intensity
pitch_multiplier(intensity) == 85 + 3 * intensity
\* 0.6 + 0.4 * intensity
volume_multiplier(intensity) == 60 + 4 * intensity

\* the locals rate_multiplier, pitch_multiplier and volume_multiplier of
\* get_vocal_parameters: computed from the validated intensity
multipliers(intensity0) ==
    LET intensity == validate_intensity(intensity0)
    IN  [rate   |-> rate_multiplier(intensity),
         pitch  |-> pitch_multiplier(intensity),
         volume |-> volume_multiplier(intensity)]

get_vocal_parameters(emotion, intensity0) ==
    LET mult        == multipliers(intensity0)
        base_params == get_emotion_mapping(emotion)
    IN  [rate   |-> validate_vocal_parameter("rate",
                        base_params.rate * mult.rate),
         pitch  |-> validate_vocal_parameter("pitch",
                        base_params.pitch * mult.pitch),
         volume |-> validate_vocal_parameter("volume",
                        base_params.volume * mult.volume),
         description |-> base_params.description]

(***************************************************************************)
(* The inputs of get_vocal_parameters: every profile key, strings that are *)
(* no key, and intensities inside, at the ends of and outside [0.1, 2.0].  *)
(***************************************************************************)
UnknownEmotions == {"love", "ANGER", ""}
EmotionStrings == EmotionLabels \cup UnknownEmotions
FarOut == Hundred * Hundred
Intensities == ((0 - MaxOver) .. (20 + MaxOver)) \cup {0 - FarOut, FarOut}

(***************************************************************************)
(* EmpathyEngine._combine_emotion_results.  The lexicon (VADER) compound   *)
(* score, the polarity (TextBlob) score and the classifier score are in    *)
(* twentieths; a weight |score| * 0.4 or * 0.3 is in 1/200.  The           *)
(* subjectivity argument is not read by the code and is left out.          *)
(***************************************************************************)
\* compound >= 0.05 -> joy, compound <= -0.05 -> sadness, else neutral
vader_emotion(compound) ==
    IF compound >= 1 THEN "joy"
    ELSE IF compound <= -1 THEN "sadness" ELSE "neutral"

\* polarity > 0.1 -> joy, polarity < -0.1 -> sadness, else neutral
blob_emotion(polarity) ==
    IF polarity > 2 THEN "joy"
    ELSE IF polarity < -2 THEN "sadness" ELSE "neutral"

\* "if hf_emotion:"
hf_present(hf_emotion) == Truthy(hf_emotion)

\* the list emotions after the three appends
fusion_emotions(compound, polarity, hf_emotion) ==
    <<vader_emotion(compound), blob_emotion(polarity)>>
        \o (IF hf_present(hf_emotion) THEN <<hf_emotion[1]>> ELSE <<>>)

\* faulty variant: the lexicon's weight is 0.5
fusion_confidences_heavy(compound, polarity, hf_emotion, hf_confidence) ==
    <<Abs(compound) * 5, Abs(polarity) * 3>>
        \o (IF hf_present(hf_emotion) THEN <<hf_confidence * 3>> ELSE <<>>)

\* the list confidences after the three appends
fusion_confidences(compound, polarity, hf_emotion, hf_confidence) ==
    <<Abs(compound) * 4, Abs(polarity) * 3>>
        \o (IF hf_present(hf_emotion) THEN <<hf_confidence * 3>> ELSE <<>>)

\* faulty variant: a later signal of a label replaces the label's weight
add_confidence_overwrite(old, c) == c

\* emotion_counts[emotion] += confidences[i]
add_confidence(old, c) == old + c

\* emotion_counts after the first n turns of the loop: a Python dict, held as
\* the sequence of its <<key, value>> pairs in insertion order
RECURSIVE count_emotions(_, _, _)
count_emotions(emotions, confidences, n) ==
    IF n = 0 THEN <<>>
    ELSE LET d == count_emotions(emotions, confidences, n - 1)
             e == emotions[n]
         IN  IF \E j \in 1..Len(d) : d[j][1] = e
             THEN [j \in 1..Len(d) |->
                     IF d[j][1] = e
                     THEN <<e, add_confidence(d[j][2], confidences[n])>>
                     ELSE d[j]]
             ELSE Append(d, <<e, confidences[n]>>)

\* faulty variant: of equal values the last one wins
dict_max_last(d) ==
    LET i == CHOOSE k \in 1..Len(d) :
                /\ \A j \in 1..Len(d) : d[j][2] <= d[k][2]
                /\ \A j \in (k + 1)..Len(d) : d[j][2] < d[k][2]
    IN  d[i][1]

\* max(emotion_counts, key=emotion_counts.get): the keys are visited in
\* insertion order and a later key wins only with a strictly larger value
dict_max(d) ==
    LET i == CHOOSE k \in 1..Len(d) :
                /\ \A j \in 1..Len(d) : d[j][2] <= d[k][2]
                /\ \A j \in 1..(k - 1) : d[j][2] < d[k][2]
    IN  d[i][1]

dict_get(d, key) ==
    LET i == CHOOSE k \in 1..Len(d) : d[k][1] = key IN d[i][2]

\* <<final_emotion, final_confidence>>
_combine_emotion_results(compound, polarity, hf_emotion, hf_confidence) ==
    LET emotions    == fusion_emotions(compound, polarity, hf_emotion)
        confidences == fusion_confidences(compound, polarity, hf_emotion,
                                          hf_confidence)
    IN  IF emotions # <<>>
        THEN LET emotion_counts == count_emotions(emotions, confidences,
                                                  Len(emotions))
                 final_emotion  == dict_max(emotion_counts)
             IN  <<final_emotion, dict_get(emotion_counts, final_emotion)>>
        ELSE <<"neutral", Hundred>>

(***************************************************************************)
(* EmpathyEngine.detect_emotion.  The three sources are collaborators:     *)
(* what each returns for the text, or that it raises, is the environment's *)
(* choice.  A source's outcome is [kind, value]: the lexicon and polarity  *)
(* scorers return a score ("score") or raise ("raise"); the classifier     *)
(* returns hf_results = [] ("empty"), hf_results = [list] ("list", the     *)
(* list of [label, score] in value) or raises ("raise"); "skipped" is a    *)
(* source that was not called.                                             *)
(***************************************************************************)
\* str.lower() on the strings the model draws
Lower(s) ==
    CASE s = "ANGER"   -> "anger"
      [] s = "Joy"     -> "joy"
      [] s = "SADNESS" -> "sadness"
      [] s = "LOVE"    -> "love"
      [] OTHER         -> s

\* max(hf_results[0], key=lambda x: x['score']): the first of the largest
best_result(list) ==
    LET i == CHOOSE k \in 1..Len(list) :
                /\ \A j \in 1..Len(list) : list[j].score <= list[k].score
                /\ \A j \in 1..(k - 1) : list[j].score < list[k].score
    IN  list[i]

\* faulty variant: without a classifier result the signal defaults to a neutral vote
hf_default_neutral == [emotion |-> Some("neutral"), confidence |-> 10]

\* hf_emotion = None; hf_confidence = 0.0
hf_default == [emotion |-> None, confidence |-> 0]

\* hf_emotion and hf_confidence after the "if self.emotion_classifier:" block
hf_signal(classifier, hf) ==
    IF classifier = "pipeline" /\ hf.kind = "list" /\ Len(hf.value) > 0
    THEN [emotion    |-> Some(Lower(best_result(hf.value).label)),
          confidence |-> best_result(hf.value).score]
    ELSE hf_default   \* no classifier, [] returned, or the exception caught

\* the record of one detect_emotion call: the sources' outcomes, the locals
\* and the return value (<<"raised">> or <<"ok", <<emotion, confidence>>>>)
detect_emotion(classifier, lex, pol, hf) ==
    IF lex.kind = "raise" \/ pol.kind = "raise"
    THEN [lex |-> lex, pol |-> pol, hf |-> hf, hf_emotion |-> None,
          hf_confidence |-> 0, emotions |-> <<>>, confidences |-> <<>>,
          ret |-> <<"raised">>]
    ELSE LET h == hf_signal(classifier, hf)
         IN  [lex |-> lex, pol |-> pol, hf |-> hf,
              hf_emotion |-> h.emotion, hf_confidence |-> h.confidence,
              emotions |-> fusion_emotions(lex.value, pol.value, h.emotion),
              confidences |-> fusion_confidences(lex.value, pol.value,
                                                 h.emotion, h.confidence),
              ret |-> <<"ok", _combine_emotion_results(lex.value, pol.value,
                                                h.emotion, h.confidence)>>]

Skipped == [kind |-> "skipped", value |-> 0]
SkippedHf == [kind |-> "skipped", value |-> <<>>]

\* every way the sources can answer one call, in the order the code calls
\* them: lexicon, polarity, then the classifier if there is one
DetectOutcomes(classifier, LexS, PolS, HfS) ==
    {detect_emotion(classifier, [kind |-> "raise", value |-> 0], Skipped,
                    SkippedHf)}
    \cup {detect_emotion(classifier, [kind |-> "score", value |-> c],
                         [kind |-> "raise", value |-> 0], SkippedHf) :
            c \in LexS}
    \cup {detect_emotion(classifier, [kind |-> "score", value |-> c],
                         [kind |-> "score", value |-> p], h) :
            c \in LexS, p \in PolS,
            h \in (IF classifier = "pipeline" THEN HfS ELSE {SkippedHf})}

(***************************************************************************)
(* The engine after __init__                                               *)
(***************************************************************************)
EngineInit ==
    /\ use_hf \in BOOLEAN
    /\ emotion_classifier \in
         (IF use_hf THEN {"pipeline", "None"} ELSE {"None"})
    /\ tts_rate = DEFAULT_RATE
    /\ tts_volume = DEFAULT_VOLUME
    /\ files = <<>>
    /\ now = 0

Idle ==
    /\ op = "none" /\ pc = "idle"
    /\ gvp = <<>> /\ det = <<>> /\ req = <<>> /\ loc = <<>>
    /\ audio = <<>> /\ trace = <<>> /\ ret = <<>>
    /\ resp = <<>> /\ hist = <<>> /\ thr = <<>>

(***************************************************************************)
(* SpecParams: get_vocal_parameters applied to each input                  *)
(***************************************************************************)
\* a call, and after it one more call with the same emotion; gvp holds the
\* calls, the latest first
GetVocalParametersCall ==
    /\ pc \in {"idle", "done"}
    /\ Len(gvp) < 2
    /\ \E emotion \in EmotionStrings, intensity \in Intensities :
        /\ gvp # <<>> => emotion = gvp[1].emotion
        /\ gvp' = <<[emotion |-> emotion, intensity |-> intensity,
                     multipliers |-> multipliers(intensity),
                     result |-> get_vocal_parameters(emotion, intensity)]>>
                       \o gvp
    /\ op' = "get_vocal_parameters"
    /\ pc' = "done"
    /\ UNCHANGED <<now, resp, hist, thr, use_hf, emotion_classifier,
                   tts_rate, tts_volume, files,
                   det, req, loc, audio, trace, ret>>

InitParams == EngineInit /\ Idle

NextParams == GetVocalParametersCall

SpecParams == InitParams /\ [][NextParams]_vars

\* C1: for every emotion string and every intensity, get_vocal_parameters
\* returns rate in [0.5, 2.0], pitch in [0.5, 2.0] and volume in [0.1, 1.0].
C1_WithinBounds ==
    gvp # <<>> =>
        LET r == gvp[1].result
        IN  /\ 5000 <= r.rate   /\ r.rate   <= 20000
            /\ 5000 <= r.pitch  /\ r.pitch  <= 20000
            /\ 1000 <= r.volume /\ r.volume <= 10000

\* an unknown emotion at an intensity far above 2.0, and a profile whose
\* scaled volume (0.9 * 1.4 = 1.26) is cut to 1.0
C1_Witness ==
    /\ gvp # <<>>
    /\ \/ gvp[1].emotion = "love" /\ gvp[1].intensity = FarOut
       \/ gvp[1].emotion = "anger" /\ gvp[1].intensity = 20
                                   /\ gvp[1].result.volume = 10000

\* C5 (as claimed): at intensity 1.0 every profile's base rate, pitch and
\* volume are returned unchanged.
C5_BaseAtOne ==
    (gvp # <<>> /\ gvp[1].emotion \in EmotionLabels /\ gvp[1].intensity = 10) =>
        LET r    == gvp[1].result
            base == EMOTION_MAPPINGS[gvp[1].emotion]
        IN  /\ r.rate   = base.rate * Hundred
            /\ r.pitch  = base.pitch * Hundred
            /\ r.volume = base.volume * Hundred

\* C6: an emotion string that is no key of the profile table gets exactly
\* what "neutral" gets at the same intensity.
C6_UnknownIsNeutral ==
    (gvp # <<>> /\ gvp[1].emotion \notin EmotionLabels) =>
        /\ gvp[1].result = get_vocal_parameters("neutral", gvp[1].intensity)
        /\ gvp[1].result.description = EMOTION_MAPPINGS["neutral"].description

C6_Witness ==
    /\ gvp # <<>>
    /\ gvp[1].emotion = "ANGER" /\ gvp[1].intensity = 15
    /\ gvp[1].result.rate = 11500

RECURSIVE Pow2(_)
Pow2(k) == IF k = 0 THEN 1 ELSE 2 * Pow2(k - 1)

RECURSIVE Pow2Mod(_)
Pow2Mod(q) == IF q = 0 THEN 1 ELSE (2 * Pow2Mod(q - 1)) % Scale

RECURSIVE UlpExp(_)
UlpExp(n) ==
    IF n < Scale THEN UlpExp(2 * n) + 1
    ELSE IF n >= 2 * Scale THEN UlpExp(n \div 2) - 1
    ELSE 52

FlErr(n) ==
    LET r == (n * Pow2Mod(UlpExp(n))) % Scale
    IN  IF 2 * r > Scale THEN Scale - r ELSE 0 - r

\* abs(x - 1.0) > 0.05 on doubles, for x in [0.5, 2.0] (where x - 1.0 is
\* exact): |x - 1.0| and the double 0.05 are compared by their decimals and,
\* when these are equal, by their rounding errors in a common unit
significant_change(x) ==
    LET d  == Abs(x - Scale)
        t  == 5 * Hundred
        ex == (IF x > Scale THEN FlErr(x) ELSE 0 - FlErr(x))
                  * Pow2(UlpExp(t) - UlpExp(x))
    IN  IF d # t THEN d > t ELSE ex > FlErr(t)

(***************************************************************************)
(* EmpathyEngine.synthesize_with_emotion and _generate_audio, step by step *)
(***************************************************************************)
AUDIO_FORMAT == "wav"

\* re.sub(r'[<>:"/\\|?*]', '_', custom_filename) on the names the model draws
clean_filename(name) ==
    CASE name = "a/b"  -> "a_b"
      [] name = "what?" -> "what_"
      [] OTHER -> name

\* the file name: <<prefix, stem, extension>>
generated_filename(custom_filename, timestamp) ==
    IF Truthy(custom_filename)
    THEN <<"", clean_filename(custom_filename[1]), AUDIO_FORMAT>>
    ELSE <<"empathy_audio_", timestamp, AUDIO_FORMAT>>

\* AudioSegment.set_frame_rate: the segment itself at its own rate,
\* otherwise the samples converted to the new rate
set_frame_rate(a, frame_rate) ==
    IF frame_rate = a.frame_rate THEN a
    ELSE [a EXCEPT !.frame_rate = frame_rate, !.raw_data.resampled = TRUE]

\* the three lines of the pitch block
pitch_shift(a, pitch_factor) ==
    LET new_sample_rate == (a.frame_rate * pitch_factor) \div Scale
        spawned         == [a EXCEPT !.frame_rate = new_sample_rate]
    IN  set_frame_rate(spawned, spawned.frame_rate)

\* pydub.effects.speedup: new samples at the same frame rate
speedup(a, playback_speed) == [a EXCEPT !.raw_data.sped = playback_speed]

NoParams == [rate |-> 0, pitch |-> 0, volume |-> 0, description |-> ""]
NoLocals ==
    [emotion |-> "", confidence |-> 0, vocal_params |-> NoParams,
     filename |-> <<>>, synthesized |-> <<>>]

Overrides == {None, Some(""), Some("ANGER"), Some("Joy"), Some("sadness"),
              Some("love")}
RequestIntensities == {0 - MaxOver, 5, 10, 20 + MaxOver}
Filenames == {None, Some(""), Some("hello"), Some("a/b")}
\* the clock counts half seconds
TicksPerSecond == 2
\* datetime.now().strftime("%Y%m%d_%H%M%S"): the time cut to the whole second
strftime(t) == ToString(t \div TicksPerSecond)
FrameRates == {16000, 22050}
\* what the sources answer inside a synthesis request
RequestScores == {-10, 0, 10}
RequestHfAnswers ==
    {[kind |-> "raise", value |-> <<>>],
     [kind |-> "list", value |-> <<[label |-> "anger", score |-> 20]>>],
     [kind |-> "list", value |-> <<[label |-> "love", score |-> 20]>>]}
\* vocal parameters handed to _generate_audio directly: around both thresholds
ThresholdValues == {9000, 9400, 9500, 9600, 10000, 10400, 10500, 10600, 11000}
DirectParams ==
    [rate : ThresholdValues, pitch : ThresholdValues, volume : {8000},
     description : {""}]

\* the "intensity" member of the JSON body of POST /synthesize: left out,
\* null, or a number
IntensityFields ==
    {<<"absent">>, <<"null">>} \cup {<<"number", i>> : i \in RequestIntensities}

\* TextInput.intensity: Optional[float] = 1.0
TextInput_intensity(field) ==
    CASE field[1] = "absent" -> Some(10)
      [] field[1] = "null"   -> None
      [] OTHER               -> Some(field[2])

\* POST /synthesize with a body drawn from the given sets: synthesize_speech
\* calls synthesize_with_emotion(text, emotion_override, intensity,
\* custom_filename) with the members of the TextInput
SynthesizeRequestOn(overrides, intensities, filenames) ==
    /\ pc = "idle"
    /\ \E o \in overrides, i \in intensities, f \in filenames :
        req' = <<[emotion_override |-> o, body_intensity |-> i,
                  intensity |-> TextInput_intensity(i),
                  custom_filename |-> f]>>
    /\ loc' = <<NoLocals>>
    /\ op' = "synthesize_with_emotion"
    /\ pc' = "resolve"
    /\ det' = <<>> /\ audio' = <<>> /\ trace' = <<>> /\ ret' = <<>>
    /\ UNCHANGED <<now, resp, hist, thr, use_hf, emotion_classifier,
                   tts_rate, tts_volume, files,
                   gvp>>

SynthesizeRequest ==
    SynthesizeRequestOn(Overrides, IntensityFields, Filenames)

\* _generate_audio(text, vocal_params, custom_filename)
GenerateAudioCall ==
    /\ pc = "idle"
    /\ \E v \in DirectParams, f \in Filenames :
        /\ req' = <<[emotion_override |-> None,
                     body_intensity |-> <<"absent">>,
                     intensity |-> Some(10), custom_filename |-> f]>>
        /\ loc' = <<[NoLocals EXCEPT !.vocal_params = v]>>
    /\ op' = "_generate_audio"
    /\ pc' = "generate"
    /\ det' = <<>> /\ audio' = <<>> /\ trace' = <<>> /\ ret' = <<>>
    /\ UNCHANGED <<now, resp, hist, thr, use_hf, emotion_classifier,
                   tts_rate, tts_volume, files,
                   gvp>>

Raise ==
    /\ pc' = "failed"
    /\ ret' = <<"raised">>

\* "if emotion_override:"
use_override(emotion_override) == Truthy(emotion_override)

\* faulty variant: the override is taken as written
override_result_raw(emotion_override) ==
    [emotion |-> emotion_override[1], confidence |-> 2 * Hundred]

\* emotion = emotion_override.lower(); confidence = 1.0
override_result(emotion_override) ==
    [emotion |-> Lower(emotion_override[1]), confidence |-> 2 * Hundred]

\* the override branch
ResolveOverride ==
    /\ pc = "resolve"
    /\ use_override(req[1].emotion_override)
    /\ loc' = <<[loc[1] EXCEPT
                   !.emotion = override_result(req[1].emotion_override).emotion,
                   !.confidence =
                       override_result(req[1].emotion_override).confidence]>>
    /\ trace' = Append(trace, "override")
    /\ pc' = "params"
    /\ UNCHANGED <<now, resp, hist, thr, use_hf, emotion_classifier,
                   tts_rate, tts_volume, files,
                   op, gvp, det, req, audio, ret>>

\* the other branch: emotion, confidence = self.detect_emotion(text)
ResolveDetect ==
    /\ pc = "resolve"
    /\ ~use_override(req[1].emotion_override)
    /\ \E d \in DetectOutcomes(emotion_classifier, RequestScores,
                               RequestScores, RequestHfAnswers) :
        /\ det' = <<d>>
        /\ trace' = Append(trace, "detect")
        /\ IF d.ret[1] = "ok"
           THEN /\ loc' = <<[loc[1] EXCEPT !.emotion = d.ret[2][1],
                                           !.confidence = d.ret[2][2]]>>
                /\ pc' = "params"
                /\ ret' = ret
           ELSE Raise /\ loc' = loc
    /\ UNCHANGED <<now, resp, hist, thr, use_hf, emotion_classifier,
                   tts_rate, tts_volume, files,
                   op, gvp, req, audio>>

\* vocal_params = self.get_vocal_parameters(emotion, intensity)
\* validate_intensity(None) raises: min(2.0, None) is a TypeError
VocalParameters ==
    /\ pc = "params"
    /\ IF req[1].intensity = None
       THEN Raise /\ loc' = loc
       ELSE /\ loc' = <<[loc[1] EXCEPT !.vocal_params =
                           get_vocal_parameters(loc[1].emotion,
                                                req[1].intensity[1])]>>
            /\ pc' = "generate"
            /\ ret' = ret
    /\ trace' = Append(trace, "params")
    /\ UNCHANGED <<now, resp, hist, thr, use_hf, emotion_classifier,
                   tts_rate, tts_volume, files,
                   op, gvp, det, req, audio>>

\* the file name, the engine's rate and volume, save_to_file and runAndWait:
\* the synthesizer writes the waveform to the file, or raises
Synthesize ==
    /\ pc = "generate"
    /\ \E fr \in FrameRates, ok \in BOOLEAN :
        LET filename == generated_filename(req[1].custom_filename,
                                           strftime(now))
            rate     == (DEFAULT_RATE * loc[1].vocal_params.rate) \div Scale
            volume   == loc[1].vocal_params.volume
            wave     == [raw_data |-> [wpm |-> rate, volume |-> volume,
                                       resampled |-> FALSE, sped |-> 0],
                         frame_rate |-> fr]
        IN  /\ tts_rate' = rate
            /\ tts_volume' = volume
            /\ IF ok
               THEN /\ files' = (filename :> [stage |-> "tts", audio |-> wave,
                                               ctime |-> now]) @@ files
                    /\ loc' = <<[loc[1] EXCEPT !.filename = filename,
                                               !.synthesized = <<wave>>]>>
                    /\ pc' = "load"
                    /\ ret' = ret
               ELSE /\ Raise
                    /\ files' = files
                    /\ loc' = <<[loc[1] EXCEPT !.filename = filename]>>
    /\ trace' = Append(trace, "synthesize")
    /\ UNCHANGED <<now, resp, hist, thr, use_hf, emotion_classifier,
                   op, gvp, det, req, audio>>

\* the order of the statements of _generate_audio after the synthesizer ran:
\* from_wav, the pitch block, the tempo block, export
stage_after_tempo_first(stage) ==
    CASE stage = "load"  -> "tempo"
      [] stage = "tempo" -> "pitch"
      [] stage = "pitch" -> "export"

stage_after(stage) ==
    CASE stage = "load"  -> "pitch"
      [] stage = "pitch" -> "tempo"
      [] stage = "tempo" -> "export"

\* audio = AudioSegment.from_wav(filepath), or it raises
LoadWav ==
    /\ pc = "load"
    /\ \E ok \in BOOLEAN :
        IF ok
        THEN /\ audio' = <<files[loc[1].filename].audio>>
             /\ pc' = stage_after("load")
             /\ ret' = ret
        ELSE Raise /\ audio' = audio
    /\ trace' = Append(trace, "load")
    /\ UNCHANGED <<now, resp, hist, thr, use_hf, emotion_classifier,
                   tts_rate, tts_volume, files,
                   op, gvp, det, req, loc>>

\* "if abs(pitch_factor - 1.0) > 0.05:" and its block
PitchStep ==
    /\ pc = "pitch"
    /\ IF significant_change(loc[1].vocal_params.pitch)
       THEN /\ audio' = <<pitch_shift(audio[1], loc[1].vocal_params.pitch)>>
            /\ trace' = Append(trace, "pitch")
       ELSE UNCHANGED <<audio, trace>>
    /\ pc' = stage_after("pitch")
    /\ UNCHANGED <<now, resp, hist, thr, use_hf, emotion_classifier,
                   tts_rate, tts_volume, files,
                   op, gvp, det, req, loc, ret>>

\* "if abs(vocal_params['rate'] - 1.0) > 0.05:" and its block; speedup raises
\* on a waveform too short to cut into chunks
TempoStep ==
    /\ pc = "tempo"
    /\ IF significant_change(loc[1].vocal_params.rate)
       THEN /\ trace' = Append(trace, "tempo")
            /\ \E ok \in BOOLEAN :
                IF ok
                THEN /\ audio' = <<speedup(audio[1],
                                           loc[1].vocal_params.rate)>>
                     /\ pc' = stage_after("tempo")
                     /\ ret' = ret
                ELSE Raise /\ audio' = audio
       ELSE /\ pc' = stage_after("tempo")
            /\ UNCHANGED <<audio, trace, ret>>
    /\ UNCHANGED <<now, resp, hist, thr, use_hf, emotion_classifier,
                   tts_rate, tts_volume, files,
                   op, gvp, det, req, loc>>

\* audio.export(filepath, format=...) and "return filename", or export raises
Export ==
    /\ pc = "export"
    /\ \E ok \in BOOLEAN :
        IF ok
        THEN /\ files' = [files EXCEPT ![loc[1].filename] =
                            [stage |-> "exported", audio |-> audio[1],
                             ctime |-> now]]
             /\ IF op = "_generate_audio"
                THEN pc' = "done" /\ ret' = <<"ok", loc[1].filename>>
                ELSE pc' = "return" /\ ret' = ret
        ELSE Raise /\ files' = files
    /\ trace' = Append(trace, "export")
    /\ UNCHANGED <<now, resp, hist, thr, use_hf, emotion_classifier,
                   tts_rate, tts_volume, op, gvp,
                   det, req, loc, audio>>

\* the dictionary synthesize_with_emotion returns
Return ==
    /\ pc = "return"
    /\ ret' = <<"ok", [emotion |-> loc[1].emotion,
                       confidence |-> loc[1].confidence,
                       vocal_parameters |-> loc[1].vocal_params,
                       audio_file |-> loc[1].filename]>>
    /\ trace' = Append(trace, "return")
    /\ pc' = "done"
    /\ UNCHANGED <<now, resp, hist, thr, use_hf, emotion_classifier,
                   tts_rate, tts_volume, files,
                   op, gvp, det, req, loc, audio>>

\* AudioResponse(message, emotion_detected, vocal_parameters,
\* audio_file_path) made from the result of synthesize_with_emotion
AudioResponse(result) ==
    [message |-> "Speech synthesized successfully",
     emotion_detected |-> result.emotion,
     vocal_parameters |-> result.vocal_parameters,
     audio_file_path |-> result.audio_file]

\* synthesize_speech answers: the AudioResponse, or "except Exception" turns
\* what synthesize_with_emotion raised into HTTPException(status_code=500)
Respond ==
    /\ op = "synthesize_with_emotion"
    /\ pc \in {"done", "failed"}
    /\ resp' = <<IF ret[1] = "ok"
                 THEN [status_code |-> 200, body |-> <<AudioResponse(ret[2])>>]
                 ELSE [status_code |-> 500, body |-> <<>>]>>
    /\ pc' = "responded"
    /\ UNCHANGED <<now, hist, thr, use_hf, emotion_classifier,
                   tts_rate, tts_volume, files,
                   op, gvp, det, req, loc, audio, trace, ret>>

Init == EngineInit /\ Idle

Next ==
    \/ SynthesizeRequest
    \/ GenerateAudioCall
    \/ ResolveOverride
    \/ ResolveDetect
    \/ VocalParameters
    \/ Synthesize
    \/ LoadWav
    \/ PitchStep
    \/ TempoStep
    \/ Export
    \/ Return
    \/ Respond

Spec == Init /\ [][Next]_vars

(***************************************************************************)
(* SpecFusion: detect_emotion applied to each answer of the sources        *)
(***************************************************************************)
LexScores ==
    {k * (20 \div ScoreSteps) : k \in (0 - ScoreSteps)..ScoreSteps}
        \cup ((0 - NearZero)..NearZero)
HfScores == {k * (20 \div HfSteps) : k \in 0..HfSteps}
\* labels a classifier can give: of the closed set (in either case), outside
\* of it, and empty
HfLabels == {"joy", "SADNESS", "anger", "love", ""}
HfEntries == [label : HfLabels, score : HfScores]
HfAnswers ==
    {[kind |-> "raise", value |-> <<>>], [kind |-> "empty", value |-> <<>>]}
    \cup {[kind |-> "list", value |-> l] :
            l \in {<<>>} \cup {<<a>> : a \in HfEntries}
                         \cup {<<a, b>> : a \in HfEntries, b \in HfEntries}}

DetectEmotionCall ==
    /\ pc = "idle"
    /\ \E d \in DetectOutcomes(emotion_classifier, LexScores, LexScores,
                               HfAnswers) :
        /\ det' = <<d>>
        /\ ret' = d.ret
    /\ op' = "detect_emotion"
    /\ pc' = "done"
    /\ UNCHANGED <<now, resp, hist, thr, use_hf, emotion_classifier,
                   tts_rate, tts_volume, files,
                   gvp, req, loc, audio, trace>>

InitFusion == EngineInit /\ Idle

NextFusion == DetectEmotionCall

SpecFusion == InitFusion /\ [][NextFusion]_vars

\* the summed weight of a label: the weights of the signals that carry it
RECURSIVE SumFor(_, _, _, _)
SumFor(label, emotions, confidences, n) ==
    IF n = 0 THEN 0
    ELSE SumFor(label, emotions, confidences, n - 1)
            + (IF emotions[n] = label THEN confidences[n] ELSE 0)

LabelSum(d, label) == SumFor(label, d.emotions, d.confidences, Len(d.emotions))
LabelsOf(d) == {d.emotions[i] : i \in 1..Len(d.emotions)}
FirstSignal(d, label) ==
    CHOOSE i \in 1..Len(d.emotions) :
        /\ d.emotions[i] = label
        /\ \A j \in 1..(i - 1) : d.emotions[j] # label

Returned(d) == d.ret[1] = "ok"
RetEmotion(d) == d.ret[2][1]
RetConfidence(d) == d.ret[2][2]

\* C2: the fused label is one whose summed weight is maximal over the labels
\* present, and the confidence is exactly that label's summed weight.
C2_MaxSummedWeight ==
    (det # <<>> /\ Returned(det[1])) =>
        LET d == det[1]
        IN  /\ RetEmotion(d) \in LabelsOf(d)
            /\ RetConfidence(d) = LabelSum(d, RetEmotion(d))
            /\ \A l \in LabelsOf(d) : LabelSum(d, l) <= RetConfidence(d)
            /\ d.confidences[1] = Abs(d.lex.value) * 4
            /\ d.confidences[2] = Abs(d.pol.value) * 3
            /\ Len(d.confidences) = 3 => d.confidences[3] = d.hf_confidence * 3

\* lexicon 0.5 and polarity 0.5 agree on joy (0.2 + 0.15), the classifier
\* says anger with 1.0 (0.3): joy wins with 0.35
C2_Witness ==
    /\ det # <<>> /\ Returned(det[1])
    /\ det[1].lex.value = 10 /\ det[1].pol.value = 10
    /\ det[1].hf_emotion = Some("anger") /\ det[1].hf_confidence = 20
    /\ det[1].ret = <<"ok", <<"joy", 70>>>>

\* what the lexicon and polarity signals alone give
TwoSourceFusion(compound, polarity) ==
    LET le == vader_emotion(compound)
        be == blob_emotion(polarity)
        wl == Abs(compound) * 4
        wb == Abs(polarity) * 3
    IN  IF le = be THEN <<le, wl + wb>>
        ELSE IF wb > wl THEN <<be, wb>> ELSE <<le, wl>>

\* C3 (as claimed): a classifier label outside the closed set is treated as
\* absent, so the result is that of the other signals and is in the set.
C3_UnknownLabelAbsent ==
    (det # <<>> /\ Returned(det[1])) =>
        LET d == det[1]
        IN  /\ RetEmotion(d) \in EmotionLabels
            /\ (d.hf_emotion # None /\ d.hf_emotion[1] \notin EmotionLabels) =>
                  d.ret[2] = TwoSourceFusion(d.lex.value, d.pol.value)

\* the classifier gave no signal: it is disabled, failed to load, or raised
ClassifierUnavailable(d) ==
    \/ emotion_classifier = "None"
    \/ d.hf.kind = "raise"

\* C7: with the classifier disabled, not loaded or raising, detect_emotion
\* returns what the lexicon and polarity signals alone give, and the
\* classifier adds no entry to the fusion.
C7_ClassifierOmitted ==
    (det # <<>> /\ det[1].lex.kind = "score" /\ det[1].pol.kind = "score"
                /\ ClassifierUnavailable(det[1])) =>
        LET d == det[1]
        IN  /\ d.ret = <<"ok", TwoSourceFusion(d.lex.value, d.pol.value)>>
            /\ Len(d.emotions) = 2 /\ Len(d.confidences) = 2

\* the three ways: disabled by configuration, load failed, raised on the call
C7_Witness ==
    /\ det # <<>> /\ Returned(det[1])
    /\ det[1].lex.value = -5 /\ det[1].pol.value = 10
    /\ det[1].ret = <<"ok", <<"joy", 30>>>>
    /\ \/ ~use_hf
       \/ use_hf /\ emotion_classifier = "None"
       \/ emotion_classifier = "pipeline" /\ det[1].hf.kind = "raise"

\* C8 (as claimed): when no source gives a signal, detect_emotion returns
\* (neutral, 0.5) instead of failing.
NoSignal(d) ==
    /\ d.lex.kind # "score" /\ d.pol.kind # "score"
    /\ d.hf_emotion = None /\ d.emotions = <<>>

C8_EmptyDefault ==
    (det # <<>> /\ NoSignal(det[1])) =>
        det[1].ret = <<"ok", <<"neutral", Hundred>>>>

\* C9: of the labels that tie for the maximal summed weight, the one returned
\* is the one whose first signal comes first in the order lexicon, polarity,
\* classifier.
C9_TieFirstSource ==
    (det # <<>> /\ Returned(det[1])) =>
        LET d == det[1]
        IN  \A l \in LabelsOf(d) \ {RetEmotion(d)} :
                LabelSum(d, l) = LabelSum(d, RetEmotion(d)) =>
                    FirstSignal(d, RetEmotion(d)) < FirstSignal(d, l)

\* lexicon 0.75 -> joy 0.3 against polarity -1.0 -> sadness 0.3; and
\* polarity -0.5 -> sadness 0.15 against classifier anger 0.5 -> 0.15
C9_Witness ==
    /\ det # <<>> /\ Returned(det[1])
    /\ \/ /\ det[1].lex.value = 15 /\ det[1].pol.value = -20
          /\ det[1].hf_emotion = None
          /\ det[1].ret = <<"ok", <<"joy", 60>>>>
       \/ /\ det[1].lex.value = 0 /\ det[1].pol.value = -10
          /\ det[1].hf_emotion = Some("anger") /\ det[1].hf_confidence = 10
          /\ det[1].ret = <<"ok", <<"sadness", 30>>>>

TraceSet == {trace[i] : i \in 1..Len(trace)}

C10_Thresholds ==
    LET v == loc[1].vocal_params
    IN  /\ pc \in {"tempo", "export", "return", "done"} =>
              ("pitch" \in TraceSet <=> Abs(v.pitch - Scale) > 5 * Hundred)
        /\ pc \in {"export", "return", "done"} =>
              ("tempo" \in TraceSet <=> Abs(v.rate - Scale) > 5 * Hundred)
        /\ (pc \in {"return", "done"} /\ v.pitch = Scale /\ v.rate = Scale) =>
              <<files[loc[1].filename].audio>> = loc[1].synthesized

\* the running operation has exported its waveform
Exported == "export" \in TraceSet /\ (ret = <<>> \/ ret[1] = "ok")

\* the running operation failed
Failed == ret # <<>> /\ ret[1] = "raised"

\* C11 (as claimed): the pitch step scales the sample rate and then restores
\* the original one, so every exported artifact has the sample rate of the
\* synthesized waveform.
C11_SampleRateRestored ==
    Exported =>
        files[loc[1].filename].audio.frame_rate
            = loc[1].synthesized[1].frame_rate

\* C12 (as claimed): the rate factor is applied in one stage only: a waveform
\* whose tempo was changed by the factor was synthesized at the default
\* speaking rate, never at the rate scaled by the same factor.
C12_RateAppliedOnce ==
    Exported =>
        LET a == files[loc[1].filename].audio.raw_data
        IN  a.sped # 0 => a.wpm = DEFAULT_RATE

\* C13 (as claimed): a request that fails is answered with an explicit error,
\* returns no result, and leaves no audio file of its own in temp_audio.
C13_NoPartialAudio ==
    Failed =>
        /\ ret = <<"raised">>
        /\ pc = "responded" => resp[1].status_code = 5 * Hundred
        /\ loc[1].filename \notin DOMAIN files

\* C16 (as claimed): a request whose intensity is left out or null is
\* processed at intensity 1.0: its vocal parameters are those computed at 1.0.
C16_NullIntensityIsOne ==
    (op = "synthesize_with_emotion"
        /\ req[1].body_intensity[1] \in {"absent", "null"}
        /\ "params" \in TraceSet) =>
        /\ loc[1].vocal_params = get_vocal_parameters(loc[1].emotion, 10)
        /\ (pc = "responded" /\ resp[1].body # <<>>) =>
              resp[1].body[1].vocal_parameters
                  = get_vocal_parameters(loc[1].emotion, 10)

\* C17 (as claimed): the answer to a successful request carries the emotion,
\* the confidence, the vocal parameters and the audio file's name that
\* synthesize_with_emotion returned.
C17_ConfidenceReachesCaller ==
    (pc = "responded" /\ resp[1].status_code = 2 * Hundred) =>
        LET body == resp[1].body[1]
        IN  /\ body.emotion_detected = ret[2].emotion
            /\ body.vocal_parameters = ret[2].vocal_parameters
            /\ body.audio_file_path = ret[2].audio_file
            /\ "confidence" \in DOMAIN body
            /\ body.confidence = ret[2].confidence

\* the place of a stage in the order of the pipeline
stage_rank(stage) ==
    CASE stage \in {"override", "detect"} -> 1
      [] stage = "params"     -> 2
      [] stage = "synthesize" -> 3
      [] stage = "load"       -> 4
      [] stage = "pitch"      -> 5
      [] stage = "tempo"      -> 6
      [] stage = "export"     -> 7
      [] stage = "return"     -> 8

\* C20: the stages of a request run in the order emotion resolved, vocal
\* parameters computed, waveform synthesized, pitch step, tempo step, export,
\* result returned, none twice; a successful request has run each of them,
\* the pitch and the tempo step where they are not skipped.
C20_StageOrder ==
    (op = "synthesize_with_emotion") =>
        /\ \A i, j \in 1..Len(trace) :
              i < j => stage_rank(trace[i]) < stage_rank(trace[j])
        /\ (ret # <<>> /\ ret[1] = "ok") =>
              /\ {"params", "synthesize", "load", "export", "return"}
                     \subseteq TraceSet
              /\ trace[1] \in {"override", "detect"}
              /\ "pitch" \in TraceSet
                     <=> significant_change(loc[1].vocal_params.pitch)
              /\ "tempo" \in TraceSet
                     <=> significant_change(loc[1].vocal_params.rate)

\* a successful request that ran both the pitch and the tempo step
C20_Witness ==
    /\ op = "synthesize_with_emotion" /\ pc = "responded"
    /\ ret # <<>> /\ ret[1] = "ok"
    /\ trace = <<"detect", "params", "synthesize", "load", "pitch", "tempo",
                 "export", "return">>

(***************************************************************************)
(* SpecStore: requests one after another on the one engine of main.py,     *)
(* time passing between them, and cleanup_old_audio_files on temp_audio    *)
(***************************************************************************)
\* requests answered in a behaviour
MaxRequests == 2
\* the clock reaches MaxHours hours and MaxTicks half seconds, and the hour
\* after AUDIO_CLEANUP_HOURS
MaxHours == 1
MaxTicks == 2

AUDIO_CLEANUP_HOURS == 24
SecondsPerHour == 3600

ClockValues ==
    {h * SecondsPerHour * TicksPerSecond + t :
        h \in (0..MaxHours) \cup {AUDIO_CLEANUP_HOURS + 1}, t \in 0..MaxTicks}

StoreOverrides == {Some("joy")}
StoreIntensities == {<<"absent">>}
StoreFilenames == {None, Some("hello"), Some("empathy_audio_x")}
MaxAgeHours == {None, Some(0), Some(1)}

\* the next POST /synthesize
StoreRequest ==
    /\ Len(hist) < MaxRequests
    /\ SynthesizeRequestOn(StoreOverrides, StoreIntensities, StoreFilenames)

\* the answer is sent (or cleanup has returned) and the engine is free for
\* the next operation
Served ==
    /\ pc \in {"responded", "swept"}
    /\ hist' = IF op = "synthesize_with_emotion"
               THEN Append(hist,
                        [custom_filename |-> req[1].custom_filename,
                         status_code |-> resp[1].status_code,
                         audio_file_path |->
                             IF resp[1].body = <<>> THEN <<>>
                             ELSE resp[1].body[1].audio_file_path])
               ELSE hist
    /\ op' = "none" /\ pc' = "idle"
    /\ det' = <<>> /\ req' = <<>> /\ loc' = <<>>
    /\ audio' = <<>> /\ trace' = <<>> /\ ret' = <<>> /\ resp' = <<>>
    /\ UNCHANGED <<now, thr, use_hf, emotion_classifier, tts_rate,
                   tts_volume, files, gvp>>

\* time passes between two operations
Tick ==
    /\ pc = "idle"
    /\ \E t \in ClockValues : t > now /\ now' = t
    /\ UNCHANGED <<resp, hist, thr, use_hf, emotion_classifier,
                   tts_rate, tts_volume, files,
                   op, pc, gvp, det, req, loc, audio, trace, ret>>

\* filename.startswith("empathy_audio_"), on the names the model draws
startswith_empathy_audio(filename) ==
    filename[1] = "empathy_audio_" \/ filename[2] = "empathy_audio_x"

\* max_age_hours = max_age_hours or config.AUDIO_CLEANUP_HOURS
effective_max_age_hours(max_age_hours) ==
    IF max_age_hours = None \/ max_age_hours[1] = 0
    THEN AUDIO_CLEANUP_HOURS
    ELSE max_age_hours[1]

\* the files the loop of cleanup_old_audio_files removes when nothing raises
to_remove(listing, current_time, max_age_seconds) ==
    {f \in DOMAIN listing :
        /\ startswith_empathy_audio(f)
        /\ current_time - listing[f].ctime > max_age_seconds * TicksPerSecond}

\* cleanup_old_audio_files(max_age_hours): the loop runs to its end, or
\* os.remove or os.path.getctime raises on the way, which the except clause
\* logs as a warning
Cleanup ==
    /\ pc = "idle"
    /\ \E h \in MaxAgeHours :
        LET max_age_seconds == effective_max_age_hours(h) * SecondsPerHour
            all             == to_remove(files, now, max_age_seconds)
        IN  \E removed \in SUBSET all :
                /\ files' = [f \in DOMAIN files \ removed |-> files[f]]
                /\ req' = <<[max_age_hours |-> h]>>
                /\ loc' = <<[listing |-> files, current_time |-> now,
                             max_age_seconds |-> max_age_seconds,
                             warning |-> removed # all]>>
    /\ op' = "cleanup_old_audio_files"
    /\ pc' = "swept"
    /\ det' = <<>> /\ audio' = <<>> /\ trace' = <<>> /\ ret' = <<>>
    /\ UNCHANGED <<now, resp, hist, thr, use_hf, emotion_classifier,
                   tts_rate, tts_volume, gvp>>

InitStore == EngineInit /\ Idle

NextStore ==
    \/ StoreRequest
    \/ ResolveOverride
    \/ VocalParameters
    \/ Synthesize
    \/ LoadWav
    \/ PitchStep
    \/ TempoStep
    \/ Export
    \/ Return
    \/ Respond
    \/ Served
    \/ Tick
    \/ Cleanup

SpecStore == InitStore /\ [][NextStore]_vars

\* C14 (as claimed): two requests that supply no custom filename and succeed
\* get different audio file names, however close in time they run.
C14_DistinctHandles ==
    \A i, j \in 1..Len(hist) :
        (i < j /\ hist[i].status_code = 2 * Hundred
               /\ hist[j].status_code = 2 * Hundred
               /\ hist[i].custom_filename = None
               /\ hist[j].custom_filename = None) =>
            hist[i].audio_file_path # hist[j].audio_file_path

\* C15 (as claimed): after cleanup_old_audio_files(max_age) has run without
\* an error, every file of temp_audio that was older than max_age is gone,
\* whatever its name, and no file younger than max_age is.
C15_SweepByAge ==
    (op = "cleanup_old_audio_files" /\ pc = "swept" /\ ~loc[1].warning) =>
        LET h       == req[1].max_age_hours
            max_age == (IF h = None THEN AUDIO_CLEANUP_HOURS ELSE h[1])
                           * SecondsPerHour * TicksPerSecond
        IN  \A f \in DOMAIN loc[1].listing :
                LET file_age == loc[1].current_time - loc[1].listing[f].ctime
                IN  /\ file_age > max_age => f \notin DOMAIN files
                    /\ file_age < max_age => f \in DOMAIN files

(***************************************************************************)
(* SpecThreads: synthesis requests that run at the same time on the one    *)
(* engine.  Each thread has its own arguments and locals; self.tts_engine  *)
(* and its properties belong to the engine.  A thread goes through         *)
(* synthesize_with_emotion up to the synthesizer's run: the emotion, the   *)
(* vocal parameters, setProperty('rate'), setProperty('volume'), and       *)
(* save_to_file with runAndWait, which speaks with the properties the      *)
(* engine has at that moment.                                              *)
(***************************************************************************)
MaxThreads == 2
Threads == 1..MaxThreads

ThreadOverrides == {Some("joy"), Some("sadness"), Some("neutral")}
ThreadIntensities == {5, 10, 20}

ThreadIdle ==
    [pc |-> "idle", emotion_override |-> None, intensity |-> 0,
     emotion |-> "", confidence |-> 0, vocal_params |-> NoParams,
     spoken |-> <<>>]

\* synthesize_with_emotion(text, emotion_override, intensity) is entered
ThreadRequest(t) ==
    /\ thr[t].pc = "idle"
    /\ \E o \in ThreadOverrides, i \in ThreadIntensities :
        thr' = [thr EXCEPT ![t] = [ThreadIdle EXCEPT
                    !.pc = "resolve", !.emotion_override = o,
                    !.intensity = i]]
    /\ UNCHANGED <<now, resp, hist, use_hf, emotion_classifier,
                   tts_rate, tts_volume, files,
                   op, pc, gvp, det, req, loc, audio, trace, ret>>

\* the override branch and get_vocal_parameters
ThreadParameters(t) ==
    /\ thr[t].pc = "resolve"
    /\ LET r == override_result(thr[t].emotion_override)
       IN  thr' = [thr EXCEPT ![t] = [@ EXCEPT
                    !.pc = "set_rate", !.emotion = r.emotion,
                    !.confidence = r.confidence,
                    !.vocal_params =
                        get_vocal_parameters(r.emotion, thr[t].intensity)]]
    /\ UNCHANGED <<now, resp, hist, use_hf, emotion_classifier,
                   tts_rate, tts_volume, files,
                   op, pc, gvp, det, req, loc, audio, trace, ret>>

\* self.tts_engine.setProperty('rate', int(DEFAULT_RATE * rate))
ThreadSetRate(t) ==
    /\ thr[t].pc = "set_rate"
    /\ tts_rate' = (DEFAULT_RATE * thr[t].vocal_params.rate) \div Scale
    /\ thr' = [thr EXCEPT ![t].pc = "set_volume"]
    /\ UNCHANGED <<now, resp, hist, use_hf, emotion_classifier,
                   tts_volume, files,
                   op, pc, gvp, det, req, loc, audio, trace, ret>>

\* self.tts_engine.setProperty('volume', volume)
ThreadSetVolume(t) ==
    /\ thr[t].pc = "set_volume"
    /\ tts_volume' = thr[t].vocal_params.volume
    /\ thr' = [thr EXCEPT ![t].pc = "save"]
    /\ UNCHANGED <<now, resp, hist, use_hf, emotion_classifier,
                   tts_rate, files,
                   op, pc, gvp, det, req, loc, audio, trace, ret>>

\* save_to_file and runAndWait: the waveform is spoken at the engine's rate
\* and volume
ThreadSave(t) ==
    /\ thr[t].pc = "save"
    /\ thr' = [thr EXCEPT ![t] = [@ EXCEPT
                  !.pc = "saved",
                  !.spoken = <<[wpm |-> tts_rate, volume |-> tts_volume]>>]]
    /\ UNCHANGED <<now, resp, hist, use_hf, emotion_classifier,
                   tts_rate, tts_volume, files,
                   op, pc, gvp, det, req, loc, audio, trace, ret>>

InitThreads ==
    /\ EngineInit
    /\ op = "none" /\ pc = "idle"
    /\ gvp = <<>> /\ det = <<>> /\ req = <<>> /\ loc = <<>>
    /\ audio = <<>> /\ trace = <<>> /\ ret = <<>>
    /\ resp = <<>> /\ hist = <<>>
    /\ thr = [t \in Threads |-> ThreadIdle]

NextThreads ==
    \E t \in Threads :
        \/ ThreadRequest(t)
        \/ ThreadParameters(t)
        \/ ThreadSetRate(t)
        \/ ThreadSetVolume(t)
        \/ ThreadSave(t)

SpecThreads == InitThreads /\ [][NextThreads]_vars

\* C19 (as claimed): requests share no mutable state: in any interleaving of
\* requests on one engine, a request's waveform is synthesized at the rate
\* and volume computed from its own inputs, and its emotion, confidence and
\* parameters are those of its own inputs.
C19_NoSharedState ==
    \A t \in Threads :
        thr[t].pc = "saved" =>
            LET own == get_vocal_parameters(
                           Lower(thr[t].emotion_override[1]), thr[t].intensity)
            IN  /\ thr[t].vocal_params = own
                /\ thr[t].confidence = 2 * Hundred
                /\ thr[t].spoken[1].wpm = (DEFAULT_RATE * own.rate) \div Scale
                /\ thr[t].spoken[1].volume = own.volume

\* C21 (as claimed): the emotion of every result synthesize_with_emotion
\* returns is one of the seven labels of the profile table; a request with an
\* override that is none of them is answered, and answered with "neutral".
C21_EmotionInClosedSet ==
    (op = "synthesize_with_emotion" /\ ret # <<>> /\ ret[1] = "ok") =>
        /\ ret[2].emotion \in EmotionLabels
        /\ (use_override(req[1].emotion_override)
              /\ Lower(req[1].emotion_override[1]) \notin EmotionLabels) =>
              ret[2].emotion = "neutral"

\* C22: with the lexicon and polarity scores in [-1, 1] and the classifier
\* score in [0, 1], the confidence _combine_emotion_results returns is in
\* [0, 1.0]: not negative and at most the three weights 0.4 + 0.3 + 0.3.
C22_ConfidenceInUnitInterval ==
    (det # <<>> /\ Returned(det[1])
        /\ Abs(det[1].lex.value) <= 20 /\ Abs(det[1].pol.value) <= 20
        /\ 0 <= det[1].hf_confidence /\ det[1].hf_confidence <= 20) =>
        /\ 0 <= RetConfidence(det[1])
        /\ RetConfidence(det[1]) <= (4 + 3 + 3) * 20
        /\ RetConfidence(det[1]) <= 2 * Hundred

\* the three sources agree on joy, each with its largest score: 1.0
C22_Witness ==
    /\ det # <<>> /\ Returned(det[1])
    /\ det[1].lex.value = 20 /\ det[1].pol.value = 20
    /\ det[1].hf_emotion = Some("joy") /\ det[1].hf_confidence = 20
    /\ det[1].confidences = <<80, 60, 60>>
    /\ det[1].ret = <<"ok", <<"joy", 2 * Hundred>>>>

====
